---- MODULE Spec2Model ----
(***************************************************************************)
(* container_state_exporter: a Prometheus exporter that lists the          *)
(* containers of a Docker runtime on every scrape and exposes one gauge    *)
(* sample per container.  The repository holds two variants of the same    *)
(* program: src/unnamed/part_000 (runtime client created once in init(),   *)
(* ordinal computed from the state) and src/main.go (runtime client        *)
(* created on every call, value always 0).                                 *)
(*                                                                         *)
(* Strings the code takes apart (image references, container names) are    *)
(* sequences of one-character strings.  Strings the code only compares     *)
(* (lifecycle states, ids, statuses) are TLA+ strings.  The float64        *)
(* ordinals are kept in tenths (0.1 is 1, 1.0 is 10).                      *)
(***************************************************************************)
EXTENDS Integers, Sequences, FiniteSets, TLC

\* ------------------------------------------------------------------ bounds
MaxReq == 2      \* scrape connections accepted during one run
MaxList == 2     \* records in one runtime answer
MaxParts == 4    \* pieces an image reference is assembled from
MaxTime == 6     \* clock cap, seconds since the shutdown context was made

\* ------------------------------------------------- constants of the program
CREATED == "created"
RESTARTING == "restarting"
EXITED == "exited"
RUNNING == "running"
UNKNOW == "noknow"

UNKNOWStateValue == 1
CreatedStateValue == 2
RestartingStateValue == 4
ExitedStateValue == 6
RunningStateValue == 10

\* the map literal: a function on its key set
ContainerStatusMap ==
    (CREATED :> CreatedStateValue) @@ (RESTARTING :> RestartingStateValue) @@
    (EXITED :> ExitedStateValue) @@ (RUNNING :> RunningStateValue) @@
    (UNKNOW :> UNKNOWStateValue)

\* strings.Contains(image, "aiforward")
Marker == <<"a", "i", "f", "o", "r", "w", "a", "r", "d">>

\* context.WithTimeout(context.Background(), 5*time.Second)
GraceSeconds == 5

\* ------------------------------------------------------- string operations
\* strings.Contains(s, sub)
Contains(s, sub) ==
    \E i \in 0..(Len(s) - Len(sub)) : SubSeq(s, i + 1, i + Len(sub)) = sub

\* positions of the separator in s
SepPos(s, c) == {i \in 1..Len(s) : s[i] = c}

RECURSIVE SplitFrom(_, _, _)
SplitFrom(s, c, start) ==
    LET later == {i \in SepPos(s, c) : i >= start}
    IN  IF later = {}
        THEN <<SubSeq(s, start, Len(s))>>
        ELSE LET i == CHOOSE k \in later : \A m \in later : k <= m
             IN  <<SubSeq(s, start, i - 1)>> \o SplitFrom(s, c, i + 1)

\* strings.Split(s, sep) for a one-character sep: n separators give n+1 parts
Split(s, c) == SplitFrom(s, c, 1)

\* strings.TrimPrefix(s, "/"): one leading "/" is removed, no more
TrimPrefix(s, c) == IF Len(s) >= 1 /\ s[1] = c THEN SubSeq(s, 2, Len(s)) ELSE s

\* ---------------------------------------------------------- pure functions
GetContainerStateValue_zero(state) ==
    IF state \in DOMAIN ContainerStatusMap THEN ContainerStatusMap[state] ELSE 0

GetContainerStateValue(state) ==
    IF state \in DOMAIN ContainerStatusMap
    THEN ContainerStatusMap[state]
    ELSE ContainerStatusMap[UNKNOW]

GetContainerVersion_last(image) ==
    LET split == Split(image, ":")
    IN  IF Len(split) > 1 /\ Contains(image, Marker) THEN split[Len(split)] ELSE <<>>

GetContainerVersion(image) ==
    LET split == Split(image, ":")
    IN  IF Len(split) > 1 /\ Contains(image, Marker) THEN split[2] ELSE <<>>

\* ------------------------------------------------- the records of a run
\* types.Container, the fields Collect reads
rWeb ==
    [Names |-> << <<"/", "w">> >>, ID |-> "c1",
     Image |-> Marker \o <<":", "v">>, Status |-> "Up", State |-> RUNNING]
rJob ==
    [Names |-> << <<"j">>, <<"/", "k">> >>, ID |-> "c2",
     Image |-> <<"n">>, Status |-> "Paused", State |-> "paused"]
rBare ==
    [Names |-> << >>, ID |-> "c3",
     Image |-> <<"n">>, Status |-> "Exited", State |-> EXITED]

Records == {rWeb, rJob, rBare}

\* the answers of one runtime list call: every container is listed once
Lists ==
    {l \in UNION {[1..n -> Records] : n \in 0..MaxList} :
        \A i, j \in DOMAIN l : l[i] = l[j] => i = j}

\* ------------------------------------------------------------------ Collect
\* prometheus.MustNewConstMetric(desc, GaugeValue, value, name, id, image,
\* status, state, version)
Sample(value, info) ==
    [value |-> value,
     name |-> TrimPrefix(info.Names[1], "/"),
     id |-> info.ID, image |-> info.Image,
     status |-> info.Status, state |-> info.State,
     version |-> GetContainerVersion(info.Image)]

\* the value argument of the sample: computed in part_000, the literal 0 in
\* main.go
SampleValue(v, info) ==
    IF v = "startup" THEN GetContainerStateValue(info.State) ELSE 0

\* info.Names[0] of a record without names is an index out of range: the
\* goroutine that runs Collect panics
RECURSIVE CollectLoop(_, _, _, _)
CollectLoop(v, list, i, sent) ==
    IF i > Len(list)
    THEN [samples |-> sent, outcome |-> "ok"]
    ELSE IF Len(list[i].Names) = 0
         THEN [samples |-> sent, outcome |-> "panic"]
         ELSE CollectLoop(v, list, i + 1,
                          Append(sent, Sample(SampleValue(v, list[i]), list[i])))

\* for _, info := range GetContainerList() { ch <- ... }
Collect(v, list) == CollectLoop(v, list, 1, <<>>)

\* GetContainerList after the runtime call returned (got, err): the named
\* result containerList holds got on both paths, the error path only logs
ListResult(got, err) == got

\* --------------------------------------------------------------- the state
VARIABLES
    variant,         \* "startup" (part_000) or "percall" (main.go)
    pc,              \* position of the main goroutine
    proc,            \* "running" or "exited"
    exitCode,        \* exit status once exited, -1 before
    exitBy,          \* "none", "main", "listener", "panic"
    DockerClient,    \* the package variable: "nil" or "h1"
    handleClosed,    \* Close() was called on the handle
    handlesCreated,  \* clients built so far by NewClientWithOpts
    initErr,         \* NewClientWithOpts failed in InitDockerConnect
    listener,        \* "none", "starting", "listening", "closing", "returned"
    lnErr,           \* what ListenAndServe returned: "none", "ErrServerClosed", "other"
    listenCalls,     \* calls of ListenAndServe
    sigPending,      \* a signal sits in the quit channel (capacity 1)
    shutdownCalls,   \* calls of server.Shutdown
    shutdownErr,     \* what Shutdown returned: "none", "nil", "deadline"
    elapsed,         \* seconds since the shutdown context was made
    conns,           \* scrape connections: "none", "inflight", "done", "killed"
    atSignal,        \* connections in flight when Shutdown was called
    lastPass,        \* the latest collection pass, or NoPass
    logs,            \* kinds of lines written to the log
    fnState, fnImage, fnValue, fnVersion   \* pure-function harness

procVars == <<variant, pc, proc, exitCode, exitBy, DockerClient, handleClosed,
              handlesCreated, initErr, listener, lnErr, listenCalls,
              sigPending, shutdownCalls, shutdownErr, elapsed, conns,
              atSignal, lastPass, logs>>
fnVars == <<fnState, fnImage, fnValue, fnVersion>>
vars == <<procVars, fnVars>>

Reqs == 1..MaxReq
NoPass ==
    [kind |-> "none", connErr |-> FALSE, got |-> <<>>, err |-> FALSE,
     returned |-> <<>>, samples |-> <<>>, outcome |-> "none"]
Unset == <<"unset">>

Inflight == {r \in Reqs : conns[r] = "inflight"}

\* the process state right after the binary is loaded
ProcInit(v) ==
    /\ variant = v
    /\ pc = IF v = "startup" THEN "init" ELSE "main"
    /\ proc = "running"
    /\ exitCode = -1
    /\ exitBy = "none"
    /\ DockerClient = "nil"
    /\ handleClosed = FALSE
    /\ handlesCreated = 0
    /\ initErr = FALSE
    /\ listener = "none"
    /\ lnErr = "none"
    /\ listenCalls = 0
    /\ sigPending = FALSE
    /\ shutdownCalls = 0
    /\ shutdownErr = "none"
    /\ elapsed = 0
    /\ conns = [r \in Reqs |-> "none"]
    /\ atSignal = {}
    /\ lastPass = NoPass
    /\ logs = {}

Init ==
    /\ \E v \in {"startup", "percall"} : ProcInit(v)
    /\ fnState = "" /\ fnImage = <<>> /\ fnValue = -1 /\ fnVersion = Unset

\* the process dies: every connection still in flight is cut
Die(code, by) ==
    /\ proc' = "exited"
    /\ exitCode' = code
    /\ exitBy' = by
    /\ conns' = [r \in Reqs |-> IF conns[r] = "inflight" THEN "killed" ELSE conns[r]]

\* ------------------------------------------------------------- start-up
\* c.Close() in the deferred function: c is nil when NewClientWithOpts
\* failed, and a method that reads the client's fields through a nil
\* receiver panics
CloseHandle(c) == IF c = "nil" THEN "panic" ELSE "closed"

\* init() -> InitDockerConnect() of part_000.  The deferred function runs on
\* both paths, after the assignment to DockerClient on the success path; an
\* error returned by Close is only logged and changes nothing else.
InitDockerConnect ==
    /\ proc = "running" /\ pc = "init" /\ variant = "startup"
    /\ \E err \in BOOLEAN :
        LET c == IF err THEN "nil" ELSE "h1"
        IN  /\ initErr' = err
            /\ handlesCreated' = IF err THEN 0 ELSE 1
            /\ DockerClient' = IF err THEN DockerClient ELSE c
            /\ logs' = logs \cup {"init"} \cup (IF err THEN {"docker_err"} ELSE {})
            /\ IF CloseHandle(c) = "panic"
               THEN /\ Die(2, "panic")
                    /\ UNCHANGED <<pc, handleClosed>>
               ELSE /\ handleClosed' = TRUE
                    /\ pc' = "main"
                    /\ UNCHANGED <<proc, exitCode, exitBy, conns>>
    /\ UNCHANGED <<variant, listener, lnErr, listenCalls, sigPending,
                   shutdownCalls, shutdownErr, elapsed, atSignal, lastPass, fnVars>>

\* main() up to <-quit: (main.go only: one GetContainerList() whose result
\* is dropped), NewExporter, MustRegister, HandleFunc, the goroutine that
\* calls ListenAndServe, signal.Notify.
MainStart ==
    /\ proc = "running" /\ pc = "main"
    /\ pc' = "waiting"
    /\ listener' = "starting"
    /\ listenCalls' = listenCalls + 1
    /\ IF variant = "percall"
       THEN \E connErr \in BOOLEAN, err \in BOOLEAN :
               /\ connErr => ~err
               /\ handlesCreated' = IF connErr THEN handlesCreated ELSE handlesCreated + 1
               /\ logs' = logs \cup (IF connErr \/ err THEN {"docker_err"} ELSE {})
       ELSE UNCHANGED <<handlesCreated, logs>>
    /\ UNCHANGED <<variant, proc, exitCode, exitBy, DockerClient, handleClosed,
                   initErr, lnErr, sigPending, shutdownCalls, shutdownErr,
                   elapsed, conns, atSignal, lastPass, fnVars>>

\* ------------------------------------------------------------ the listener
\* if err != http.ErrServerClosed
FatalListenErr_any(err) == TRUE

FatalListenErr(err) == err # "ErrServerClosed"

\* ListenAndServe bound the address and accepts
ListenBind ==
    /\ proc = "running" /\ listener = "starting"
    /\ listener' = "listening"
    /\ UNCHANGED <<variant, pc, proc, exitCode, exitBy, DockerClient,
                   handleClosed, handlesCreated, initErr, lnErr, listenCalls,
                   sigPending, shutdownCalls, shutdownErr, elapsed, conns,
                   atSignal, lastPass, logs, fnVars>>

\* ListenAndServe returns in the goroutine: ErrServerClosed once Shutdown
\* closed the listener, another error when bind or accept failed.  The
\* goroutine then logs and calls os.Exit(1), or ends.
ListenReturn ==
    /\ proc = "running"
    /\ \E err \in {"ErrServerClosed", "other"} :
        /\ IF err = "ErrServerClosed"
           THEN listener = "closing"
           ELSE listener \in {"starting", "listening"}
        /\ listener' = "returned"
        /\ lnErr' = err
        /\ IF FatalListenErr(err)
           THEN /\ logs' = logs \cup {"listen_err"}
                /\ Die(1, "listener")
           ELSE UNCHANGED <<logs, proc, exitCode, exitBy, conns>>
    /\ UNCHANGED <<variant, pc, DockerClient, handleClosed, handlesCreated,
                   initErr, listenCalls, sigPending, shutdownCalls,
                   shutdownErr, elapsed, atSignal, lastPass, fnVars>>

\* ------------------------------------------------------------- the scrapes
\* a scrape connection is accepted; its handler logs, runs the registry's
\* Gather, and Collect blocks in the runtime's list call
Accept ==
    /\ proc = "running" /\ listener = "listening"
    /\ \E r \in Reqs :
        /\ conns[r] = "none"
        /\ \A q \in Reqs : q < r => conns[q] # "none"
        /\ conns' = [conns EXCEPT ![r] = "inflight"]
    /\ logs' = logs \cup {"start_metrics"}
    /\ UNCHANGED <<variant, pc, proc, exitCode, exitBy, DockerClient,
                   handleClosed, handlesCreated, initErr, listener, lnErr,
                   listenCalls, sigPending, shutdownCalls, shutdownErr,
                   elapsed, atSignal, lastPass, fnVars>>

\* the rest of the handler, from the return of the runtime call: the error
\* branch of GetContainerList, the loop of Collect, the response.
\* part_000 calls DockerClient.ContainerList (a nil DockerClient panics);
\* main.go builds a client first and returns the empty result when that fails.
Complete ==
    /\ proc = "running"
    /\ \E r \in Reqs, connErr \in BOOLEAN, got \in Lists, err \in BOOLEAN :
        /\ conns[r] = "inflight"
        /\ variant = "startup" => ~connErr
        /\ connErr => (got = <<>> /\ ~err)
        /\ LET nilCall == variant = "startup" /\ DockerClient = "nil"
               returned == IF connErr \/ nilCall THEN <<>> ELSE ListResult(got, err)
               run == IF nilCall
                      THEN [samples |-> <<>>, outcome |-> "panic"]
                      ELSE Collect(variant, returned)
           IN  /\ lastPass' = [kind |-> "pass", connErr |-> connErr, got |-> got,
                               err |-> err, returned |-> returned,
                               samples |-> run.samples, outcome |-> run.outcome]
               /\ logs' = logs \cup (IF connErr \/ err THEN {"docker_err"} ELSE {})
               /\ handlesCreated' =
                     IF variant = "percall" /\ ~connErr
                     THEN handlesCreated + 1 ELSE handlesCreated
               /\ IF run.outcome = "panic"
                  THEN Die(2, "panic")
                  ELSE /\ conns' = [conns EXCEPT ![r] = "done"]
                       /\ UNCHANGED <<proc, exitCode, exitBy>>
    /\ UNCHANGED <<variant, pc, DockerClient, handleClosed, initErr, listener,
                   lnErr, listenCalls, sigPending, shutdownCalls, shutdownErr,
                   elapsed, atSignal, fnVars>>

\* ------------------------------------------------------------- shutdown
\* SIGTERM or os.Interrupt is delivered to the quit channel while main waits
\* on it; a signal that finds the channel full is dropped, and one that
\* arrives after main left <-quit stays in the channel unread
Signal ==
    /\ proc = "running" /\ pc = "waiting"
    /\ ~sigPending
    /\ sigPending' = TRUE
    /\ UNCHANGED <<variant, pc, proc, exitCode, exitBy, DockerClient,
                   handleClosed, handlesCreated, initErr, listener, lnErr,
                   listenCalls, shutdownCalls, shutdownErr, elapsed, conns,
                   atSignal, lastPass, logs, fnVars>>

\* <-quit returns; the log line; the 5 s context; Shutdown closes the
\* listener and starts to wait for the connections in flight
MainQuit ==
    /\ proc = "running" /\ pc = "waiting" /\ sigPending
    /\ sigPending' = FALSE
    /\ pc' = "shutting"
    /\ logs' = logs \cup {"shutting_down"}
    /\ elapsed' = 0
    /\ shutdownCalls' = shutdownCalls + 1
    /\ atSignal' = Inflight
    /\ listener' = IF listener \in {"starting", "listening"} THEN "closing" ELSE listener
    /\ UNCHANGED <<variant, proc, exitCode, exitBy, DockerClient, handleClosed,
                   handlesCreated, initErr, lnErr, listenCalls, shutdownErr,
                   conns, lastPass, fnVars>>

\* ctx.Done() of the context made by WithTimeout(..., 5*time.Second)
CtxDone_never(t) == FALSE

CtxDone(t) == t >= GraceSeconds

\* Shutdown can return: no connection is in flight, or the context is done
ShutdownReady == Inflight = {} \/ CtxDone(elapsed)

\* one second passes while Shutdown waits
Tick ==
    /\ proc = "running" /\ pc = "shutting"
    /\ ~ShutdownReady
    /\ elapsed < MaxTime
    /\ elapsed' = elapsed + 1
    /\ UNCHANGED <<variant, pc, proc, exitCode, exitBy, DockerClient,
                   handleClosed, handlesCreated, initErr, listener, lnErr,
                   listenCalls, sigPending, shutdownCalls, shutdownErr, conns,
                   atSignal, lastPass, logs, fnVars>>

\* Shutdown returns nil or the context's error; the error is logged;
\* "Server shutdown" is logged; main returns and the process exits with 0
ShutdownReturn ==
    /\ proc = "running" /\ pc = "shutting"
    /\ ShutdownReady
    /\ shutdownErr' = IF Inflight = {} THEN "nil" ELSE "deadline"
    /\ logs' = logs \cup {"shutdown"} \cup
               (IF Inflight = {} THEN {} ELSE {"shutdown_failed"})
    /\ pc' = "returned"
    /\ Die(0, "main")
    /\ UNCHANGED <<variant, DockerClient, handleClosed, handlesCreated, initErr,
                   listener, lnErr, listenCalls, sigPending, shutdownCalls,
                   elapsed, atSignal, lastPass, fnVars>>

Next ==
    \/ InitDockerConnect
    \/ MainStart
    \/ ListenBind
    \/ ListenReturn
    \/ Accept
    \/ Complete
    \/ Signal
    \/ MainQuit
    \/ Tick
    \/ ShutdownReturn

Spec == Init /\ [][Next]_vars

\* ------------------------------------------- the pure functions on inputs
\* lifecycle states the runtime reports, the map's own key for the unknown
\* bucket, and strings outside the map
StateStrings ==
    {CREATED, RESTARTING, EXITED, RUNNING, UNKNOW,
     "unknown", "", "paused", "dead", "removing", "Running"}

Pieces == {<<":">>, Marker, <<"v">>, <<"/">>}

RECURSIVE ImagesOf(_)
ImagesOf(n) ==
    IF n = 0 THEN {<<>>}
    ELSE LET shorter == ImagesOf(n - 1)
         IN  shorter \cup {p \o s : p \in Pieces, s \in shorter}

Images == ImagesOf(MaxParts)

InitFn ==
    /\ ProcInit("startup")
    /\ fnState \in StateStrings
    /\ fnImage \in Images
    /\ fnValue = -1
    /\ fnVersion = Unset

ApplyStateValue ==
    /\ fnValue = -1
    /\ fnValue' = GetContainerStateValue(fnState)
    /\ UNCHANGED <<procVars, fnState, fnImage, fnVersion>>

ApplyVersion ==
    /\ fnVersion = Unset
    /\ fnVersion' = GetContainerVersion(fnImage)
    /\ UNCHANGED <<procVars, fnState, fnImage, fnValue>>

NextFn == ApplyStateValue \/ ApplyVersion

SpecFn == InitFn /\ [][NextFn]_vars

\* ================================================================ claims
Pass == lastPass.kind = "pass"

\* C1: whenever the runtime's list call returns an error, GetContainerList
\* returns an empty sequence and Collect completes normally with zero samples.
C1_ListErrorYieldsNothing ==
    (Pass /\ lastPass.err) =>
        /\ lastPass.returned = <<>>
        /\ lastPass.samples = <<>>
        /\ lastPass.outcome = "ok"

\* C2: when the runtime connection cannot be established (at start-up, or on
\* the call in the per-call variant) start-up completes and no later pass
\* crashes the process: the pass logs the error and returns no samples.
C2_ConnectFailureRecovered ==
    /\ initErr => (pc # "init" /\ exitBy # "panic")
    /\ (Pass /\ lastPass.connErr) =>
          (lastPass.outcome = "ok" /\ lastPass.samples = <<>> /\ "docker_err" \in logs)

\* C3: GetContainerStateValue returns 0.2 for "created", 0.4 for
\* "restarting", 0.6 for "exited", 1.0 for "running" and 0.1 for every other
\* string, "unknown" and "" included (values in tenths); 0.1 is strictly
\* below the ordinal of every recognized state.
C3_StateMapperExact ==
    fnValue # -1 =>
        /\ fnState = "created" => fnValue = 2
        /\ fnState = "restarting" => fnValue = 4
        /\ fnState = "exited" => fnValue = 6
        /\ fnState = "running" => fnValue = 10
        /\ fnState \notin {"created", "restarting", "exited", "running"} => fnValue = 1
        /\ fnState \in {"created", "restarting", "exited", "running"} => fnValue > 1

C3_Witness == fnState = "unknown" /\ fnValue = 1

\* C4: one Collect pass emits exactly one sample per record the gateway
\* returned, the i-th sample built from the i-th record, and a pass over zero
\* records emits zero samples without error.
C4_OneSamplePerRecord ==
    Pass =>
        /\ lastPass.outcome = "ok"
        /\ Len(lastPass.samples) = Len(lastPass.returned)
        /\ \A i \in 1..Len(lastPass.samples) :
              /\ lastPass.samples[i].id = lastPass.returned[i].ID
              /\ lastPass.samples[i].image = lastPass.returned[i].Image
              /\ lastPass.samples[i].status = lastPass.returned[i].Status
              /\ lastPass.samples[i].state = lastPass.returned[i].State

\* the parts of an image reference around its last ':'
LastColon(image) == CHOOSE k \in SepPos(image, ":") : \A m \in SepPos(image, ":") : m <= k
FirstColon(image) == CHOOSE k \in SepPos(image, ":") : \A m \in SepPos(image, ":") : k <= m

\* C5 as stated: the reference is split at its last ':' into repository and
\* tag; the result is empty without a ':' or when the repository lacks
\* "aiforward", and the tag otherwise.
C5_LastColonSplit ==
    fnVersion # Unset =>
        IF SepPos(fnImage, ":") = {}
        THEN fnVersion = <<>>
        ELSE LET k == LastColon(fnImage)
                 repository == SubSeq(fnImage, 1, k - 1)
                 tag == SubSeq(fnImage, k + 1, Len(fnImage))
             IN  fnVersion = IF Contains(repository, Marker) THEN tag ELSE <<>>

\* C5 amended: the result is empty when the reference has no ':' or when the
\* whole reference does not contain "aiforward"; otherwise it is the text
\* between the first ':' and the next ':' (or the end of the reference).
C5_FirstColonSegment ==
    fnVersion # Unset =>
        IF SepPos(fnImage, ":") = {} \/ ~Contains(fnImage, Marker)
        THEN fnVersion = <<>>
        ELSE LET k == FirstColon(fnImage)
                 later == {m \in SepPos(fnImage, ":") : m > k}
                 stop == IF later = {} THEN Len(fnImage)
                         ELSE (CHOOSE m \in later : \A n \in later : m <= n) - 1
             IN  fnVersion = SubSeq(fnImage, k + 1, stop)

C5_Witness ==
    /\ fnVersion # Unset /\ fnVersion # <<>>
    /\ Cardinality(SepPos(fnImage, ":")) >= 2
    /\ fnVersion # SubSeq(fnImage, LastColon(fnImage) + 1, Len(fnImage))

\* C6: no record aborts a pass: every returned record, one without names
\* included, gets its sample, with the missing name degraded to the empty
\* string, and the pass goes on to the records after it.
C6_NoRecordAbortsPass ==
    Pass =>
        /\ lastPass.outcome # "panic"
        /\ \A i \in 1..Len(lastPass.returned) :
              /\ i \in DOMAIN lastPass.samples
              /\ lastPass.samples[i].id = lastPass.returned[i].ID
              /\ Len(lastPass.returned[i].Names) = 0 => lastPass.samples[i].name = <<>>

\* C7: once shutdown is initiated no new connection is accepted, and every
\* request in flight at the signal that finishes within the 5 s grace period
\* completes successfully before the process exits (a request is cut only at
\* the end of the grace period).
C7_GracefulDrain ==
    /\ pc \in {"shutting", "returned"} =>
          \A r \in Reqs : conns[r] \in {"inflight", "killed"} => r \in atSignal
    /\ proc = "exited" =>
          \A r \in atSignal :
              \/ conns[r] = "done"
              \/ conns[r] = "killed" /\ elapsed >= GraceSeconds

\* C8: after the signal the process exits no later than the end of the 5 s
\* grace period whatever is in flight; when the timeout elapses with a
\* request unfinished the timeout is logged, Shutdown is not called again and
\* the process has exited.
C8_ExitByDeadline ==
    /\ (proc = "running" /\ pc = "shutting") => elapsed <= GraceSeconds
    /\ shutdownCalls <= 1
    /\ shutdownErr = "deadline" =>
          /\ proc = "exited"
          /\ "shutdown_failed" \in logs
          /\ elapsed <= GraceSeconds

C8_Witness ==
    /\ shutdownErr = "deadline" /\ proc = "exited"
    /\ \E r \in atSignal : conns[r] = "killed"

C10_SingleOpenHandle ==
    pc \in {"waiting", "shutting", "returned"} =>
        /\ handlesCreated = 1
        /\ DockerClient = "h1"
        /\ ~handleClosed

====
